---- MODULE Spec2Model ----
(***************************************************************************)
(* Procedural dungeon generation of Sands of Duat                          *)
(* (src/src/procedural/dungeon_generator.rs, room_types.rs).               *)
(*                                                                         *)
(* generate_dungeon is modelled stage by stage, one action per loop        *)
(* iteration.  The seeded generator (ChaCha8Rng::seed_from_u64) is the     *)
(* sequence of values it hands out: the first run of a seed records that   *)
(* sequence in `stream`, a second run of the same seed replays it.  The    *)
(* thread-local generator of generate_room_template (thread_rng) is not    *)
(* seeded: each of its draws is a free choice in every run.                *)
(*                                                                         *)
(* Floats are kept as integers: weights and probabilities in hundredths,   *)
(* positions in world units rounded to the nearest integer.  Strings with  *)
(* diacritics are written without them.                                    *)
(***************************************************************************)
EXTENDS Integers, Sequences, FiniteSets, TLC

\* ---------------------------------------------------------------- bounds
MaxTotalRooms == 3
MaxBossFrequency == 2
MaxBranches == 1
MaxLayoutRooms == 4
MaxReplayRooms == 2

\* ------------------------------------------------------- room_types.rs
RoomType == {"Combat", "Elite", "Treasure", "Shop", "Event", "Rest", "Boss", "Secret"}

BiomeType == {"Desert", "Temple", "Underworld"}

ConnectionDirection == {"North", "South", "East", "West"}

\* determine_biome_for_floor: floor 0 falls through to the default arm.
determine_biome_for_floor(floor) ==
    IF floor >= 1 /\ floor <= 4 THEN "Desert"
    ELSE IF floor >= 5 /\ floor <= 8 THEN "Temple"
    ELSE "Underworld"

\* The draws generate_room_template takes from thread_rng for a room type:
\* an index into a list of three flavor variants (Combat, Event), the two
\* enemy counts (Secret), nothing otherwise.
NoThreadDraw == [variant |-> 0, lo |-> 0, hi |-> 0]

\* The draws with gen_range(0..=3) for the least count of a Secret room.
ThreadRngDrawsWide(room_type) ==
    CASE room_type \in {"Combat", "Event"} ->
            {[variant |-> v, lo |-> 0, hi |-> 0] : v \in 0..2}
      [] room_type = "Secret" ->
            {[variant |-> 0, lo |-> l, hi |-> h] : l \in 0..3, h \in 2..4}
      [] OTHER -> {NoThreadDraw}

ThreadRngDraws(room_type) ==
    CASE room_type \in {"Combat", "Event"} ->
            {[variant |-> v, lo |-> 0, hi |-> 0] : v \in 0..2}
      [] room_type = "Secret" ->
            {[variant |-> 0, lo |-> l, hi |-> h] : l \in 0..2, h \in 2..4}
      [] OTHER -> {NoThreadDraw}

\* The thread_rng outcomes explored while a layout is generated: the first
\* and the last flavor variant, the least and the greatest enemy counts.
ExploredThreadDraws(room_type) ==
    {tr \in ThreadRngDraws(room_type) :
        /\ tr.variant \in {0, 2}
        /\ room_type = "Secret" => (tr.lo \in {0, 2} /\ tr.hi = tr.lo + 2)}

\* The flavor variants of the combat rooms: name, enemy roster, min, max.
CombatTemplates(biome) ==
    CASE biome = "Desert" ->
            << [name |-> "Dunas Mortais", enemies |-> <<"Desert_Scorpion", "Sand_Mummy">>, min |-> 2, max |-> 4],
               [name |-> "Oasis Envenenado", enemies |-> <<"Poisonous_Snake", "Desert_Bandit">>, min |-> 3, max |-> 5],
               [name |-> "Tempestade de Areia", enemies |-> <<"Sand_Elemental", "Desert_Warrior">>, min |-> 2, max |-> 3] >>
      [] biome = "Temple" ->
            << [name |-> "Salao dos Guardioes", enemies |-> <<"Stone_Guardian", "Temple_Priest">>, min |-> 2, max |-> 4],
               [name |-> "Camara dos Hieroglifos", enemies |-> <<"Cursed_Scribe", "Hieroglyph_Specter">>, min |-> 3, max |-> 5],
               [name |-> "Altar dos Sacrificios", enemies |-> <<"Sacrificial_Priest", "Blood_Wraith">>, min |-> 2, max |-> 3] >>
      [] OTHER ->
            << [name |-> "Rio dos Mortos", enemies |-> <<"Lost_Soul", "Ferryman_Shadow">>, min |-> 3, max |-> 6],
               [name |-> "Salao do Julgamento", enemies |-> <<"Judgment_Wraith", "Underworld_Guardian">>, min |-> 2, max |-> 4],
               [name |-> "Cavernas do Esquecimento", enemies |-> <<"Memory_Phantom", "Bone_Stalker">>, min |-> 4, max |-> 7] >>

EventNames(biome) ==
    CASE biome = "Desert" -> <<"Oraculo do Deserto", "Miragem Divina", "Caravana Perdida">>
      [] biome = "Temple" -> <<"Altar de Thoth", "Julgamento de Maat", "Ritual Interrompido">>
      [] OTHER -> <<"Julgamento de Anubis", "Rio Styx", "Balanca do Coracao">>

\* Name and enemy roster of the room types with one variant per biome.
FixedFlavor(room_type, biome) ==
    CASE room_type = "Elite" ->
            (CASE biome = "Desert" -> [name |-> "Farao das Areias", enemies |-> <<"Sand_Pharaoh", "Royal_Guard">>]
               [] biome = "Temple" -> [name |-> "Sumo Sacerdote", enemies |-> <<"High_Priest", "Temple_Champion">>]
               [] OTHER -> [name |-> "Lorde das Sombras", enemies |-> <<"Shadow_Lord", "Death_Knight">>])
      [] room_type = "Treasure" ->
            (CASE biome = "Desert" -> [name |-> "Tesouro Enterrado", enemies |-> << >>]
               [] biome = "Temple" -> [name |-> "Camara do Tesouro Real", enemies |-> << >>]
               [] OTHER -> [name |-> "Cofre das Almas", enemies |-> << >>])
      [] room_type = "Shop" ->
            (CASE biome = "Desert" -> [name |-> "Caravana do Deserto", enemies |-> << >>]
               [] biome = "Temple" -> [name |-> "Loja do Escriba", enemies |-> << >>]
               [] OTHER -> [name |-> "Mercador das Sombras", enemies |-> << >>])
      [] room_type = "Rest" ->
            (CASE biome = "Desert" -> [name |-> "Oasis Sagrado", enemies |-> << >>]
               [] biome = "Temple" -> [name |-> "Camara de Meditacao", enemies |-> << >>]
               [] OTHER -> [name |-> "Refugio das Almas", enemies |-> << >>])
      [] room_type = "Boss" ->
            (CASE biome = "Desert" -> [name |-> "Trono das Areias Eternas", enemies |-> <<"Pharaoh_Boss">>]
               [] biome = "Temple" -> [name |-> "Sanctum Sanctorum", enemies |-> <<"Set_Boss">>]
               [] OTHER -> [name |-> "Salao do Julgamento Final", enemies |-> <<"Anubis_Boss">>])
      [] OTHER ->
            (CASE biome = "Desert" -> [name |-> "Tumba Esquecida", enemies |-> <<"Secret_Guardian">>]
               [] biome = "Temple" -> [name |-> "Arquivo Proibido", enemies |-> <<"Secret_Guardian">>]
               [] OTHER -> [name |-> "Vault das Almas Perdidas", enemies |-> <<"Secret_Guardian">>])

\* RoomTemplateGenerator::generate_room_template; tr holds the thread_rng
\* draws.  The reward and difficulty multipliers and the special mechanics
\* are functions of (room_type, biome, floor) alone and are left out.
generate_room_template(room_type, biome, floor, tr) ==
    CASE room_type = "Combat" ->
            LET t == CombatTemplates(biome)[tr.variant + 1] IN
            [room_type |-> room_type, biome |-> biome, name |-> t.name,
             enemy_types |-> t.enemies,
             min_enemies |-> IF biome = "Underworld" THEN t.min + floor \div 2
                             ELSE t.min + floor \div 3,
             max_enemies |-> IF biome = "Underworld" THEN t.max + floor
                             ELSE t.max + floor \div 2]
      [] room_type = "Event" ->
            [room_type |-> room_type, biome |-> biome,
             name |-> EventNames(biome)[tr.variant + 1],
             enemy_types |-> << >>, min_enemies |-> 0, max_enemies |-> 0]
      [] room_type = "Elite" ->
            [room_type |-> room_type, biome |-> biome,
             name |-> FixedFlavor(room_type, biome).name,
             enemy_types |-> FixedFlavor(room_type, biome).enemies,
             min_enemies |-> 1, max_enemies |-> 2]
      [] room_type = "Boss" ->
            [room_type |-> room_type, biome |-> biome,
             name |-> FixedFlavor(room_type, biome).name,
             enemy_types |-> FixedFlavor(room_type, biome).enemies,
             min_enemies |-> 1, max_enemies |-> 1]
      [] room_type = "Secret" ->
            [room_type |-> room_type, biome |-> biome,
             name |-> FixedFlavor(room_type, biome).name,
             enemy_types |-> FixedFlavor(room_type, biome).enemies,
             min_enemies |-> tr.lo, max_enemies |-> tr.hi]
      [] OTHER ->
            [room_type |-> room_type, biome |-> biome,
             name |-> FixedFlavor(room_type, biome).name,
             enemy_types |-> FixedFlavor(room_type, biome).enemies,
             min_enemies |-> 0, max_enemies |-> 0]

\* ------------------------------------------------- dungeon_generator.rs
\* Percentages offered for secret_room_chance.  0.25, 0.5 and 1.0 are exact in f32,
\* so the product rooms * chance is exact too.  (The default, 0.15, yields no
\* secret room in a layout of fewer than 7 rooms, as 0.0 does.)
SecretRoomChances == {0, 25, 50, 100}

\* DungeonGenerationConfig; secret_room_chance is in hundredths.
DungeonGenerationConfig ==
    [total_rooms : 0..MaxTotalRooms,
     max_branches_per_room : 0..MaxBranches,
     boss_room_frequency : 0..MaxBossFrequency,
     secret_room_chance : SecretRoomChances,
     backtrack_connections : BOOLEAN,
     ensure_all_rooms_reachable : {TRUE}]

\* `(n as f32 * secret_room_chance) as u32`: the cast truncates.
SecretRoomsCount(n, chance) == (n * chance) \div 100

\* (0..total_rooms).step_by(boss_room_frequency).skip(1), for a frequency
\* of at least 1: the multiples of the frequency below total_rooms, without 0.
BossFloors(total_rooms, frequency) ==
    LET stepped == (total_rooms + frequency - 1) \div frequency
    IN  [k \in 1..(stepped - 1) |-> k * frequency]

\* The number of rooms a layout of n critical-path and branch rooms ends with.
FinalRooms(n, chance) == n + SecretRoomsCount(n, chance)

\* The configurations explored: those whose layout can stay within
\* MaxLayoutRooms rooms when no branch room is drawn (the start room, the boss
\* rooms and the rooms between them, and the secret rooms these call for).
ConfigInBounds(c) ==
    LET boss_floors == IF c.boss_room_frequency = 0 THEN << >>
                       ELSE BossFloors(c.total_rooms, c.boss_room_frequency)
        critical == IF boss_floors = << >> THEN 1
                    ELSE boss_floors[Len(boss_floors)] + 1
    IN  /\ FinalRooms(critical, c.secret_room_chance) <= MaxLayoutRooms
        \* a frequency above total_rooms places no boss room, as one equal to
        \* total_rooms does
        /\ c.boss_room_frequency <= (IF c.total_rooms = 0 THEN 1 ELSE c.total_rooms)

DungeonRoom(id, template, position, depth, is_critical_path) ==
    [id |-> id, template |-> template, position |-> position, depth |-> depth,
     is_critical_path |-> is_critical_path, connections |-> << >>]

RoomConnection(from_room, to_room, direction, is_locked, unlock_condition) ==
    [from_room |-> from_room, to_room |-> to_room, direction |-> direction,
     is_locked |-> is_locked, unlock_condition |-> unlock_condition]

\* Option<String>::None
None == "None"

Abs(x) == IF x < 0 THEN -x ELSE x

calculate_connection_direction(from, to) ==
    LET dx == to[1] - from[1]
        dy == to[2] - from[2]
    IN  IF Abs(dy) > Abs(dx)
        THEN (IF dy > 0 THEN "North" ELSE "South")
        ELSE (IF dx > 0 THEN "East" ELSE "West")

\* Mutant: the direction is handed back as it came.
opposite_directionSame(dir) == dir

opposite_direction(dir) ==
    CASE dir = "North" -> "South"
      [] dir = "South" -> "North"
      [] dir = "East" -> "West"
      [] OTHER -> "East"

\* Mutant: the new room is pushed at the end of the vector.
VecInsertAtEnd(v, index, element) == Append(v, element)

\* Vec::insert(index, element), index counted from 0.
VecInsert(v, index, element) ==
    SubSeq(v, 1, index) \o <<element>> \o SubSeq(v, index + 1, Len(v))

\* The weight tables with Boss in place of Treasure for a Boss parent.
BranchWeightsWithBoss(parent_type) ==
    CASE parent_type = "Combat" ->
            << <<"Treasure", 30>>, <<"Shop", 15>>, <<"Event", 20>>,
               <<"Rest", 10>>, <<"Elite", 25>> >>
      [] parent_type = "Boss" ->
            << <<"Boss", 60>>, <<"Shop", 30>>, <<"Rest", 10>> >>
      [] parent_type = "Elite" ->
            << <<"Treasure", 50>>, <<"Rest", 30>>, <<"Shop", 20>> >>
      [] OTHER ->
            << <<"Combat", 50>>, <<"Treasure", 30>>, <<"Event", 20>> >>

\* The weight tables of select_branch_room_type, in hundredths.
BranchWeights(parent_type) ==
    CASE parent_type = "Combat" ->
            << <<"Treasure", 30>>, <<"Shop", 15>>, <<"Event", 20>>,
               <<"Rest", 10>>, <<"Elite", 25>> >>
      [] parent_type = "Boss" ->
            << <<"Treasure", 60>>, <<"Shop", 30>>, <<"Rest", 10>> >>
      [] parent_type = "Elite" ->
            << <<"Treasure", 50>>, <<"Rest", 30>>, <<"Shop", 20>> >>
      [] OTHER ->
            << <<"Combat", 50>>, <<"Treasure", 30>>, <<"Event", 20>> >>

RECURSIVE TotalWeight(_, _)
TotalWeight(weights, n) ==
    IF n = 0 THEN 0 ELSE TotalWeight(weights, n - 1) + weights[n][2]

\* The walk of select_branch_room_type from entry i on.
RECURSIVE WeightedWalk(_, _, _)
WeightedWalk(weights, i, random_value) ==
    IF i > Len(weights) THEN "Combat"
    ELSE LET rest == random_value - weights[i][2]
         IN  IF rest <= 0 THEN weights[i][1]
             ELSE WeightedWalk(weights, i + 1, rest)

\* select_branch_room_type; random_value is rng.gen::<f32>() * total_weight
\* in hundredths, a value in 0..(total_weight - 1).
select_branch_room_type(parent_type, random_value) ==
    WeightedWalk(BranchWeights(parent_type), 1, random_value)

\* The values of random_value explored: the largest one of every entry of
\* the weight table.
BranchTypeDraws(parent_type) ==
    LET weights == BranchWeights(parent_type)
    IN  {TotalWeight(weights, i) - 1 : i \in 1..Len(weights)}

\* should_lock_branch_connection: the number of gen_bool calls it makes for
\* a room type, and its result given the outcome of that call (1 = true).
LockDrawCount(room_type) == IF room_type \in {"Shop", "Rest"} THEN 0 ELSE 1

should_lock_branch_connection(room_type, draws) ==
    IF room_type \in {"Shop", "Rest"} THEN FALSE ELSE draws[1] = 1

\* Offset of branch branch_idx of num_branches around its critical room:
\* 150 * (cos, sin) of the angle branch_idx / num_branches * TAU.
BranchOffset(branch_idx, num_branches) ==
    CASE branch_idx = 0 -> <<150, 0>>
      [] 2 * branch_idx = num_branches -> <<-150, 0>>
      [] 4 * branch_idx = num_branches -> <<0, 150>>
      [] 4 * branch_idx = 3 * num_branches -> <<0, -150>>
      [] 3 * branch_idx = num_branches -> <<-75, 130>>
      [] 3 * branch_idx = 2 * num_branches -> <<-75, -130>>
      [] OTHER -> <<0, 0>>

\* The outcomes explored for the two gen_range(-200.0..200.0) draws of a
\* secret room's offset, as pairs <<x, y>>.
SecretOffsets == {<<-150, 100>>, <<100, -150>>}

DistanceSquared(p, q) ==
    (p[1] - q[1]) * (p[1] - q[1]) + (p[2] - q[2]) * (p[2] - q[2])

\* find_nearest_critical_room: the critical rooms of the branch room's depth,
\* the first of the nearest ones (Iterator::min_by); << >> is Option::None.
find_nearest_critical_room(branch_room, critical_rooms) ==
    LET same == {i \in DOMAIN critical_rooms :
                    critical_rooms[i].depth = branch_room.depth}
        dist(i) == DistanceSquared(branch_room.position, critical_rooms[i].position)
        best == {i \in same : \A j \in same : dist(i) < dist(j) \/ (dist(i) = dist(j) /\ i <= j)}
    IN  IF same = {} THEN << >>
        ELSE <<critical_rooms[CHOOSE i \in best : TRUE]>>

\* HashMap::entry(key).or_insert_with(Vec::new).push(connection)
PushConnection(conns, key, connection) ==
    IF key \in DOMAIN conns
    THEN [conns EXCEPT ![key] = Append(@, connection)]
    ELSE conns @@ (key :> <<connection>>)

\* rooms.iter().filter(|r| r.is_critical_path), order kept.
RECURSIVE CriticalRooms(_)
CriticalRooms(rs) ==
    IF rs = << >> THEN << >>
    ELSE IF Head(rs).is_critical_path
         THEN <<Head(rs)>> \o CriticalRooms(Tail(rs))
         ELSE CriticalRooms(Tail(rs))

RECURSIVE BranchRooms(_)
BranchRooms(rs) ==
    IF rs = << >> THEN << >>
    ELSE IF ~Head(rs).is_critical_path
         THEN <<Head(rs)>> \o BranchRooms(Tail(rs))
         ELSE BranchRooms(Tail(rs))

\* Mutant: every boss room gets the id of the first one.
BossRoomsOneId(boss_floors, first_id) ==
    [k \in DOMAIN boss_floors |->
        DungeonRoom(first_id,
                    generate_room_template("Boss",
                        determine_biome_for_floor(boss_floors[k]),
                        boss_floors[k], NoThreadDraw),
                    <<0, boss_floors[k] * 100>>, boss_floors[k], TRUE)]

\* The boss rooms of generate_critical_path, ids counted on from first_id.
BossRooms(boss_floors, first_id) ==
    [k \in DOMAIN boss_floors |->
        DungeonRoom(first_id + k - 1,
                    generate_room_template("Boss",
                        determine_biome_for_floor(boss_floors[k]),
                        boss_floors[k], NoThreadDraw),
                    <<0, boss_floors[k] * 100>>, boss_floors[k], TRUE)]

\* Mutant: the forward edge leads back to the room it leaves.
ForwardConnectionToSelf(from_room, to_room) ==
    RoomConnection(from_room.id, from_room.id,
        calculate_connection_direction(from_room.position, to_room.position),
        FALSE, None)

\* Mutant: the two ends of the forward edge are swapped.
ForwardConnectionSwapped(from_room, to_room) ==
    RoomConnection(to_room.id, from_room.id,
        calculate_connection_direction(from_room.position, to_room.position),
        FALSE, None)

\* The forward edge between two consecutive critical-path rooms.
ForwardConnection(from_room, to_room) ==
    RoomConnection(from_room.id, to_room.id,
        calculate_connection_direction(from_room.position, to_room.position),
        FALSE, None)

\* The backtrack edge that answers a forward edge.
ReverseConnection(from_room, to_room, connection) ==
    RoomConnection(to_room.id, from_room.id,
        opposite_direction(connection.direction), FALSE, None)

\* The loop over critical_rooms.windows(2) of generate_connections, from
\* window i on.
RECURSIVE ConnectCriticalPath(_, _, _, _)
ConnectCriticalPath(conns, critical_rooms, i, backtrack) ==
    IF i + 1 > Len(critical_rooms) THEN conns
    ELSE LET from_room == critical_rooms[i]
             to_room == critical_rooms[i + 1]
             connection == ForwardConnection(from_room, to_room)
             forward == PushConnection(conns, from_room.id, connection)
             both == IF backtrack
                     THEN PushConnection(forward, to_room.id,
                              ReverseConnection(from_room, to_room, connection))
                     ELSE forward
         IN  ConnectCriticalPath(both, critical_rooms, i + 1, backtrack)

\* The edge from a critical room to a branch room; is_locked and
\* unlock_condition come from two separate calls of
\* should_lock_branch_connection.
BranchConnection(nearest_critical, branch_room, locked, conditioned) ==
    RoomConnection(nearest_critical.id, branch_room.id,
        calculate_connection_direction(nearest_critical.position, branch_room.position),
        locked,
        IF conditioned THEN "defeat_room_enemies" ELSE None)

\* Mutant: the return edge of a branch room is locked.
BranchReturnConnectionLocked(nearest_critical, branch_room, connection) ==
    RoomConnection(branch_room.id, nearest_critical.id,
        opposite_direction(connection.direction), TRUE, None)

\* The return edge of a branch room.
BranchReturnConnection(nearest_critical, branch_room, connection) ==
    RoomConnection(branch_room.id, nearest_critical.id,
        opposite_direction(connection.direction), FALSE, None)

\* Mutant: the edge names the id after the secret room's.
SecretConnectionNextId(parent_room, secret_id, secret_position) ==
    RoomConnection(parent_room.id, secret_id + 1,
        calculate_connection_direction(parent_room.position, secret_position),
        TRUE, "find_secret_switch")

\* Mutant: the edge of a secret room names no unlock condition.
SecretConnectionNoCondition(parent_room, secret_id, secret_position) ==
    RoomConnection(parent_room.id, secret_id,
        calculate_connection_direction(parent_room.position, secret_position),
        TRUE, None)

\* Mutant: the edge of a secret room is not locked.
SecretConnectionUnlocked(parent_room, secret_id, secret_position) ==
    RoomConnection(parent_room.id, secret_id,
        calculate_connection_direction(parent_room.position, secret_position),
        FALSE, "find_secret_switch")

\* The only edge of a secret room.
SecretConnection(parent_room, secret_id, secret_position) ==
    RoomConnection(parent_room.id, secret_id,
        calculate_connection_direction(parent_room.position, secret_position),
        TRUE, "find_secret_switch")

\* ---------------------------------------------------------- DungeonValidator
\* The inner loop of a breadth-first search over the edges of one room, from
\* edge i on; with_locked tells whether locked edges are followed.  The
\* result is the queue and the visited set.
RECURSIVE VisitEdges(_, _, _, _, _)
VisitEdges(edges, i, queue, visited, with_locked) ==
    IF i > Len(edges) THEN [queue |-> queue, visited |-> visited]
    ELSE IF (with_locked \/ ~edges[i].is_locked) /\ edges[i].to_room \notin visited
         THEN VisitEdges(edges, i + 1, Append(queue, edges[i].to_room),
                         visited \cup {edges[i].to_room}, with_locked)
         ELSE VisitEdges(edges, i + 1, queue, visited, with_locked)

EdgesOf(conns, room_id) ==
    IF room_id \in DOMAIN conns THEN conns[room_id] ELSE << >>

\* Mutant: the search follows locked edges too.
RECURSIVE UnlockedSearchAnyEdge(_, _, _)
UnlockedSearchAnyEdge(conns, queue, visited) ==
    IF queue = << >> THEN visited
    ELSE LET next == VisitEdges(EdgesOf(conns, Head(queue)), 1, Tail(queue), visited, TRUE)
         IN  UnlockedSearchAnyEdge(conns, next.queue, next.visited)

\* The search loop of validate_connectivity: the visited set when the queue
\* has run empty.
RECURSIVE UnlockedSearch(_, _, _)
UnlockedSearch(conns, queue, visited) ==
    IF queue = << >> THEN visited
    ELSE LET next == VisitEdges(EdgesOf(conns, Head(queue)), 1, Tail(queue), visited, FALSE)
         IN  UnlockedSearch(conns, next.queue, next.visited)

Visited(l) == UnlockedSearch(l.connections, <<l.start_room>>, {l.start_room})

\* Mutant: a locked inbound edge counts too.
ImmediatelyAccessibleAnyEdge(l) ==
    {id \in DOMAIN l.rooms :
        \/ \E k \in DOMAIN l.connections : \E i \in DOMAIN l.connections[k] :
              l.connections[k][i].to_room = l.rooms[id].id
        \/ l.rooms[id].id = l.start_room}

\* The rooms validate_connectivity counts as immediately accessible.
ImmediatelyAccessible(l) ==
    {id \in DOMAIN l.rooms :
        \/ \E k \in DOMAIN l.connections : \E i \in DOMAIN l.connections[k] :
              /\ l.connections[k][i].to_room = l.rooms[id].id
              /\ ~l.connections[k][i].is_locked
        \/ l.rooms[id].id = l.start_room}

validate_connectivity(l) ==
    Cardinality(Visited(l)) >= Cardinality(ImmediatelyAccessible(l))

\* Mutant: the path search stops at locked edges.
RECURSIVE PathSearchUnlockedOnly(_, _, _, _)
PathSearchUnlockedOnly(conns, queue, visited, end) ==
    IF queue = << >> THEN FALSE
    ELSE IF Head(queue) = end THEN TRUE
    ELSE LET next == VisitEdges(EdgesOf(conns, Head(queue)), 1, Tail(queue), visited, FALSE)
         IN  PathSearchUnlockedOnly(conns, next.queue, next.visited, end)

RECURSIVE PathSearch(_, _, _, _)
PathSearch(conns, queue, visited, end) ==
    IF queue = << >> THEN FALSE
    ELSE IF Head(queue) = end THEN TRUE
    ELSE LET next == VisitEdges(EdgesOf(conns, Head(queue)), 1, Tail(queue), visited, TRUE)
         IN  PathSearch(conns, next.queue, next.visited, end)

has_path_between(l, start, end) ==
    PathSearch(l.connections, <<start>>, {start}, end)

validate_critical_path(l) ==
    \A i \in DOMAIN l.boss_rooms : has_path_between(l, l.start_room, l.boss_rooms[i])

\* ------------------------------------------------- validate_and_fix_layout
\* The last room of depth 0 in place of the first.
FindStartRoomLast(rs) ==
    LET zero == {i \in DOMAIN rs : rs[i].depth = 0}
    IN  IF zero = {} THEN 0
        ELSE rs[CHOOSE i \in zero : \A j \in zero : i >= j].id

\* rooms.iter().find(|r| r.depth == 0).map(|r| r.id).unwrap_or(RoomId(0))
FindStartRoom(rs) ==
    LET zero == {i \in DOMAIN rs : rs[i].depth = 0}
    IN  IF zero = {} THEN 0
        ELSE rs[CHOOSE i \in zero : \A j \in zero : i <= j].id

RECURSIVE FilterBossRooms(_)
FilterBossRooms(rs) ==
    IF rs = << >> THEN << >>
    ELSE IF Head(rs).template.room_type = "Boss"
         THEN <<Head(rs).id>> \o FilterBossRooms(Tail(rs))
         ELSE FilterBossRooms(Tail(rs))

\* rooms.into_iter().map(|room| (room.id, room)).collect(): of two rooms
\* with one id the later one stays.
RoomMap(rs) ==
    [id \in {rs[i].id : i \in DOMAIN rs} |->
        rs[CHOOSE i \in DOMAIN rs :
              rs[i].id = id /\ \A j \in DOMAIN rs : rs[j].id = id => j <= i]]

DungeonLayout(rs, conns, total_rooms) ==
    [rooms |-> RoomMap(rs), connections |-> conns,
     start_room |-> FindStartRoom(rs), boss_rooms |-> FilterBossRooms(rs),
     total_rooms |-> total_rooms]

\* The value of `layout` while generate_dungeon has not returned.
NoLayout ==
    [rooms |-> << >>, connections |-> << >>, start_room |-> 0,
     boss_rooms |-> << >>, total_rooms |-> 0]

\* ------------------------------------------------------------------ state
VARIABLES
    config,           \* the DungeonGenerationConfig of the call
    pc,               \* the stage generate_dungeon is in
    rooms,            \* critical_rooms / all_rooms / rooms: the room vector
    connections,      \* the connection map under construction
    room_id_counter,  \* the id the stage at hand gives out next
    depth,            \* generate_critical_path: depth being filled
    insertion_index,  \* generate_critical_path: where the next room goes
    critical_index,   \* add_branching_rooms: critical rooms handled so far
    num_branches,     \* add_branching_rooms: branches drawn for that room
    branch_idx,       \* add_branching_rooms: branches made for that room
    conn_index,       \* generate_connections: branch rooms handled so far
    secrets_left,     \* add_secret_rooms: iterations still to run
    layout,           \* the DungeonLayout returned
    run,              \* 1: first call with the seed, 2: second call
    stream,           \* the values the seeded generator has handed out
    cursor,           \* how many of them the call at hand has taken
    first_layout,     \* the DungeonLayout the first call returned
    dungeon,          \* the GeneratedDungeon resource
    unlock_event,     \* the room-unlock event of the game, and how far it got
    validation,       \* what validate_dungeon_integrity found
    dungeon_state,    \* room_system.rs: the DungeonState resource
    current_room,     \* room_system.rs: the CurrentRoom resource
    transition_event, \* the TransitionToRoomEvent in flight
    room_weights,     \* generate_next_room: the weight table it draws from
    selection,        \* a call of select_weighted_room_type, and how far it got
    template_call     \* a call of generate_room_template, and what it returned

\* The state outside generate_dungeon.
unlockVars == <<dungeon, unlock_event>>

roomVars == <<dungeon_state, current_room, transition_event, room_weights>>

callVars == <<selection, template_call>>

auxVars == <<unlockVars, validation, roomVars, callVars>>

\* GeneratedDungeon as generate_initial_dungeon inserts it.
GeneratedDungeon(l, seed) ==
    [layout |-> l, current_room |-> l.start_room,
     unlocked_rooms |-> {l.start_room}, generation_seed |-> seed]

\* The resource before generate_initial_dungeon has run.
NoDungeon ==
    [layout |-> NoLayout, current_room |-> 0, unlocked_rooms |-> {},
     generation_seed |-> 0]

\* No room-unlock event has been raised.
NoEvent == [state |-> "none", tag |-> None, room |-> 0]

\* validate_dungeon_integrity has not run.
NoValidation == [state |-> "none", connectivity |-> FALSE, critical_path |-> FALSE]

\* DungeonState::default()
DefaultDungeonState ==
    [current_floor |-> 1, rooms_completed |-> 0, total_rooms |-> 12,
     current_biome |-> "Desert", room_history |-> << >>]

\* The CurrentRoom resource before initialize_room_system has inserted it.
NoRoom ==
    [template |-> [room_type |-> "None"], is_completed |-> FALSE,
     enemies_remaining |-> 0, loot_spawned |-> FALSE]

\* No TransitionToRoomEvent is in flight.
NoTransition == [new_room |-> [room_type |-> "None"]]

\* generate_next_room is not drawing from a weight table.
NoWeights == << >>

InitRoomSystem ==
    /\ dungeon_state = DefaultDungeonState
    /\ current_room = NoRoom
    /\ transition_event = NoTransition
    /\ room_weights = NoWeights

\* select_weighted_room_type is not running.
NoSelection ==
    [pc |-> "idle", weights |-> << >>, random_value |-> 0, index |-> 0,
     room_type |-> None]

\* generate_room_template has not been called.
NoTemplateCall ==
    [room_type |-> None, biome |-> None, floor |-> 0, template |-> [room_type |-> None]]

InitCalls ==
    /\ selection = NoSelection
    /\ template_call = NoTemplateCall

InitAux ==
    /\ dungeon = NoDungeon
    /\ unlock_event = NoEvent
    /\ validation = NoValidation
    /\ InitRoomSystem
    /\ InitCalls

genVars == <<rooms, connections, room_id_counter, depth, insertion_index,
             critical_index, num_branches, branch_idx, conn_index, secrets_left>>

vars == <<config, pc, rooms, connections, room_id_counter, depth,
          insertion_index, critical_index, num_branches, branch_idx,
          conn_index, secrets_left, layout, run, stream, cursor, first_layout, auxVars>>

\* A draw sequence ds of the seeded generator: free in the first call, the
\* recorded values in the second.
SeedDraw(ds) ==
    \/ run = 1
    \/ /\ cursor + Len(ds) <= Len(stream)
       /\ \A i \in DOMAIN ds : stream[cursor + i] = ds[i]

Consume(ds) ==
    /\ stream' = IF run = 1 THEN stream \o ds ELSE stream
    /\ cursor' = cursor + Len(ds)

Init ==
    /\ config \in {c \in DungeonGenerationConfig : ConfigInBounds(c)}
    /\ pc = "start"
    /\ rooms = << >>
    /\ connections = << >>
    /\ room_id_counter = 0
    /\ depth = 0
    /\ insertion_index = 0
    /\ critical_index = 0
    /\ num_branches = 0
    /\ branch_idx = 0
    /\ conn_index = 0
    /\ secrets_left = 0
    /\ layout = NoLayout
    /\ run = 1
    /\ stream = << >>
    /\ cursor = 0
    /\ first_layout = NoLayout
    /\ InitAux

\* ------------------------------------------------ generate_critical_path
\* step_by(0) panics: generate_dungeon does not return.
StepByZeroPanic ==
    /\ pc = "start"
    /\ config.boss_room_frequency = 0
    /\ pc' = "panicked"
    /\ UNCHANGED <<config, genVars, layout, run, stream, cursor, first_layout, auxVars>>

\* The start room and the boss rooms.
StartCriticalPath ==
    /\ pc = "start"
    /\ config.boss_room_frequency > 0
    /\ \E tr \in ExploredThreadDraws("Combat") :
          LET start_room == DungeonRoom(0,
                  generate_room_template("Combat", "Desert", 1, tr),
                  <<0, 0>>, 0, TRUE)
              boss_floors == BossFloors(config.total_rooms, config.boss_room_frequency)
          IN  /\ rooms' = <<start_room>> \o BossRooms(boss_floors, 1)
              /\ room_id_counter' = 1 + Len(boss_floors)
    /\ depth' = 1
    /\ insertion_index' = 1
    /\ pc' = "fill"
    /\ UNCHANGED <<config, connections, critical_index, num_branches, branch_idx,
                   conn_index, secrets_left, layout, run, stream, cursor, first_layout, auxVars>>

\* One iteration of the fill loop.
FillCriticalPath ==
    /\ pc = "fill"
    /\ depth < config.total_rooms
    /\ insertion_index < Len(rooms)
    /\ IF rooms[insertion_index + 1].depth > depth
       THEN \E b \in {0, 1} :
              /\ SeedDraw(<<b>>)
              /\ Consume(<<b>>)
              /\ LET room_type == IF b = 1 THEN "Combat" ELSE "Elite" IN
                 \E tr \in ExploredThreadDraws(room_type) :
                    rooms' = VecInsert(rooms, insertion_index,
                                DungeonRoom(room_id_counter,
                                    generate_room_template(room_type,
                                        determine_biome_for_floor(depth), depth, tr),
                                    <<0, depth * 100>>, depth, TRUE))
              /\ room_id_counter' = room_id_counter + 1
       ELSE UNCHANGED <<rooms, room_id_counter, stream, cursor>>
    /\ insertion_index' = insertion_index + 1
    /\ depth' = depth + 1
    /\ UNCHANGED <<config, pc, connections, critical_index, num_branches, branch_idx,
                   conn_index, secrets_left, layout, run, first_layout, auxVars>>

\* The fill loop ends; add_branching_rooms starts.
CriticalPathDone ==
    /\ pc = "fill"
    /\ ~(depth < config.total_rooms /\ insertion_index < Len(rooms))
    /\ pc' = "branch"
    /\ room_id_counter' = Len(rooms)
    /\ critical_index' = 0
    /\ num_branches' = 0
    /\ branch_idx' = 0
    /\ UNCHANGED <<config, rooms, connections, depth, insertion_index, conn_index,
                   secrets_left, layout, run, stream, cursor, first_layout, auxVars>>

\* --------------------------------------------------- add_branching_rooms
\* The next critical room: gen_range(0..=max_branches_per_room).  Only seeds
\* whose layout stays within MaxLayoutRooms rooms are explored.
DrawBranchCount ==
    /\ pc = "branch"
    /\ branch_idx = num_branches
    /\ critical_index < Len(CriticalRooms(rooms))
    /\ \E n \in 0..config.max_branches_per_room :
          /\ FinalRooms(Len(rooms) + n, config.secret_room_chance) <= MaxLayoutRooms
          /\ SeedDraw(<<n>>)
          /\ Consume(<<n>>)
          /\ num_branches' = n
    /\ branch_idx' = 0
    /\ critical_index' = critical_index + 1
    /\ UNCHANGED <<config, pc, rooms, connections, room_id_counter, depth,
                   insertion_index, conn_index, secrets_left, layout, run, first_layout, auxVars>>

\* One branch room of the critical room at hand.
AddBranchRoom ==
    /\ pc = "branch"
    /\ branch_idx < num_branches
    /\ LET critical_room == CriticalRooms(rooms)[critical_index] IN
       \E v \in BranchTypeDraws(critical_room.template.room_type) :
          /\ SeedDraw(<<v>>)
          /\ Consume(<<v>>)
          /\ LET branch_room_type ==
                     select_branch_room_type(critical_room.template.room_type, v)
                 offset == BranchOffset(branch_idx, num_branches)
             IN  \E tr \in ExploredThreadDraws(branch_room_type) :
                    rooms' = Append(rooms,
                        DungeonRoom(room_id_counter,
                            generate_room_template(branch_room_type,
                                determine_biome_for_floor(critical_room.depth),
                                critical_room.depth, tr),
                            <<critical_room.position[1] + offset[1],
                              critical_room.position[2] + offset[2]>>,
                            critical_room.depth, FALSE))
    /\ room_id_counter' = room_id_counter + 1
    /\ branch_idx' = branch_idx + 1
    /\ UNCHANGED <<config, pc, connections, depth, insertion_index, critical_index,
                   num_branches, conn_index, secrets_left, layout, run, first_layout, auxVars>>

\* ---------------------------------------------------- generate_connections
\* add_branching_rooms returns; the critical path is connected.
ConnectCriticalRooms ==
    /\ pc = "branch"
    /\ branch_idx = num_branches
    /\ critical_index = Len(CriticalRooms(rooms))
    /\ connections' = ConnectCriticalPath(<< >>, CriticalRooms(rooms), 1,
                                          config.backtrack_connections)
    /\ conn_index' = 0
    /\ pc' = "connect"
    /\ UNCHANGED <<config, rooms, room_id_counter, depth, insertion_index,
                   critical_index, num_branches, branch_idx, secrets_left, layout,
                   run, stream, cursor, first_layout, auxVars>>

\* One branch room is connected to its critical room.
ConnectBranchRoom ==
    /\ pc = "connect"
    /\ conn_index < Len(BranchRooms(rooms))
    /\ LET branch_room == BranchRooms(rooms)[conn_index + 1]
           nearest == find_nearest_critical_room(branch_room, CriticalRooms(rooms))
           n == LockDrawCount(branch_room.template.room_type)
       IN  IF nearest = << >>
           THEN UNCHANGED <<connections, stream, cursor>>
           ELSE \E d1 \in [1..n -> {0, 1}], d2 \in [1..n -> {0, 1}] :
                  /\ SeedDraw(d1 \o d2)
                  /\ Consume(d1 \o d2)
                  /\ LET connection == BranchConnection(nearest[1], branch_room,
                             should_lock_branch_connection(branch_room.template.room_type, d1),
                             should_lock_branch_connection(branch_room.template.room_type, d2))
                     IN  connections' =
                           PushConnection(
                               PushConnection(connections, nearest[1].id, connection),
                               branch_room.id,
                               BranchReturnConnection(nearest[1], branch_room, connection))
    /\ conn_index' = conn_index + 1
    /\ UNCHANGED <<config, pc, rooms, room_id_counter, depth, insertion_index,
                   critical_index, num_branches, branch_idx, secrets_left, layout,
                   run, first_layout, auxVars>>

\* ------------------------------------------------------- add_secret_rooms
\* generate_connections returns; the number of secret rooms is computed.
ConnectionsDone ==
    /\ pc = "connect"
    /\ conn_index = Len(BranchRooms(rooms))
    /\ room_id_counter' = Len(rooms)
    /\ secrets_left' = SecretRoomsCount(Len(rooms), config.secret_room_chance)
    /\ pc' = "secrets"
    /\ UNCHANGED <<config, rooms, connections, depth, insertion_index, critical_index,
                   num_branches, branch_idx, conn_index, layout, run, stream, cursor,
                   first_layout, auxVars>>

\* One secret room: rooms.choose(rng) and the two offsets come from the
\* seeded generator.
AddSecretRoom ==
    /\ pc = "secrets"
    /\ secrets_left > 0
    /\ \E p \in 1..Len(rooms), off \in SecretOffsets :
          /\ SeedDraw(<<p, off[1], off[2]>>)
          /\ Consume(<<p, off[1], off[2]>>)
          /\ LET parent_room == rooms[p]
                 secret_position == <<parent_room.position[1] + off[1],
                                      parent_room.position[2] + off[2]>>
             IN  \E tr \in ExploredThreadDraws("Secret") :
                    /\ rooms' = Append(rooms,
                          DungeonRoom(room_id_counter,
                              generate_room_template("Secret",
                                  determine_biome_for_floor(parent_room.depth),
                                  parent_room.depth, tr),
                              secret_position, parent_room.depth, FALSE))
                    /\ connections' = PushConnection(connections, parent_room.id,
                          SecretConnection(parent_room, room_id_counter, secret_position))
    /\ room_id_counter' = room_id_counter + 1
    /\ secrets_left' = secrets_left - 1
    /\ UNCHANGED <<config, pc, depth, insertion_index, critical_index, num_branches,
                   branch_idx, conn_index, layout, run, first_layout, auxVars>>

\* ------------------------------------------------ validate_and_fix_layout
\* The layout is assembled and returned, whatever validate_connectivity says.
ValidateAndFixLayout ==
    /\ pc = "secrets"
    /\ secrets_left = 0
    /\ layout' = DungeonLayout(rooms, connections, config.total_rooms)
    /\ pc' = "done"
    /\ UNCHANGED <<config, genVars, run, stream, cursor, first_layout, auxVars>>

\* generate_dungeon is called again with the same config and the same seed
\* (explored for layouts of at most MaxReplayRooms rooms).
GenerateAgain ==
    /\ pc = "done"
    /\ run = 1
    /\ Len(rooms) <= MaxReplayRooms
    /\ first_layout' = layout
    /\ layout' = NoLayout
    /\ run' = 2
    /\ cursor' = 0
    /\ pc' = "start"
    /\ rooms' = << >>
    /\ connections' = << >>
    /\ room_id_counter' = 0
    /\ depth' = 0
    /\ insertion_index' = 0
    /\ critical_index' = 0
    /\ num_branches' = 0
    /\ branch_idx' = 0
    /\ conn_index' = 0
    /\ secrets_left' = 0
    /\ UNCHANGED <<config, stream, auxVars>>

Next ==
    \/ StepByZeroPanic
    \/ StartCriticalPath
    \/ FillCriticalPath
    \/ CriticalPathDone
    \/ DrawBranchCount
    \/ AddBranchRoom
    \/ ConnectCriticalRooms
    \/ ConnectBranchRoom
    \/ ConnectionsDone
    \/ AddSecretRoom
    \/ ValidateAndFixLayout

Spec == Init /\ [][Next]_vars

\* Two calls of generate_dungeon with one config and one seed.
NextTwice == Next \/ GenerateAgain

SpecTwice == Init /\ [][NextTwice]_vars

\* ------------------------------------------------------------ properties
Done == pc = "done"

\* Every RoomConnection of a layout.
AllConnections(l) ==
    UNION {{l.connections[k][i] : i \in DOMAIN l.connections[k]} :
              k \in DOMAIN l.connections}

RoomTypeOf(l, id) == l.rooms[id].template.room_type

SecretRoomIds(l) == {id \in DOMAIN l.rooms : RoomTypeOf(l, id) = "Secret"}

\* Branch rooms: neither on the critical path nor secret.
BranchRoomIds(l) ==
    {id \in DOMAIN l.rooms :
        ~l.rooms[id].is_critical_path /\ RoomTypeOf(l, id) # "Secret"}

HasUnlockedInbound(l, id) ==
    \E c \in AllConnections(l) : c.to_room = id /\ ~c.is_locked

HasLockedInbound(l, id) ==
    \E c \in AllConnections(l) : c.to_room = id /\ c.is_locked

\* -------------------------------------------------- the dungeon at run time
\* generate_initial_dungeon: the layout generate_dungeon returned becomes the
\* GeneratedDungeon resource.  (The system passes the seed 42; every seed is
\* explored here.)
generate_initial_dungeon ==
    /\ pc = "done"
    /\ dungeon = NoDungeon
    /\ dungeon' = GeneratedDungeon(layout, 42)
    /\ UNCHANGED <<config, pc, genVars, layout, run, stream, cursor, first_layout,
                   unlock_event, validation, roomVars, callVars>>

\* The room-unlock events the game can raise for a layout: the tag of a
\* locked connection paired with the room the connection leads to.
RoomUnlockEvents(l) ==
    {[state |-> "sent", tag |-> c.unlock_condition, room |-> c.to_room] :
        c \in {x \in AllConnections(l) : x.is_locked /\ x.unlock_condition # None}}

\* The game raises a room-unlock event.
SendRoomUnlockEvent ==
    /\ dungeon # NoDungeon
    /\ unlock_event = NoEvent
    /\ \E e \in RoomUnlockEvents(dungeon.layout) : unlock_event' = e
    /\ UNCHANGED <<config, pc, genVars, layout, run, stream, cursor, first_layout,
                   dungeon, validation, roomVars, callVars>>

\* handle_room_unlock_events runs in the frame of the event.  The system has
\* no parameters and an empty body: it reads no event and writes no resource.
handle_room_unlock_events ==
    /\ unlock_event.state = "sent"
    /\ unlock_event' = [unlock_event EXCEPT !.state = "handled"]
    /\ UNCHANGED <<config, pc, genVars, layout, run, stream, cursor, first_layout,
                   dungeon, validation, roomVars, callVars>>

\* update_room_accessibility: its body is empty too.
update_room_accessibility ==
    /\ dungeon # NoDungeon
    /\ UNCHANGED vars

NextUnlock ==
    \/ Next
    \/ generate_initial_dungeon
    \/ SendRoomUnlockEvent
    \/ handle_room_unlock_events
    \/ update_room_accessibility

\* generate_dungeon, then the systems that keep the GeneratedDungeon.
SpecUnlock == Init /\ [][NextUnlock]_vars

\* ------------------------------------------- the validators on any layout
MaxValidatorRooms == 3
MaxValidatorEdges == 3

ValidatorRoomIds == 0..(MaxValidatorRooms - 1)

\* The connections a layout of these rooms can hold.
ValidatorEdges ==
    [from_room : ValidatorRoomIds, to_room : ValidatorRoomIds, is_locked : BOOLEAN]

EdgeRank(e) ==
    (e.from_room * MaxValidatorRooms + e.to_room) * 2 + (IF e.is_locked THEN 1 ELSE 0)

\* Lists of at most MaxValidatorEdges different connections, in one order.
ValidatorEdgeLists ==
    UNION {{s \in [1..k -> ValidatorEdges] :
                \A i \in 1..(k - 1) : EdgeRank(s[i]) < EdgeRank(s[i + 1])} :
           k \in 0..MaxValidatorEdges}

\* Lists of different room ids, in one order: the values of boss_rooms.
ValidatorBossLists ==
    UNION {{s \in [1..k -> ValidatorRoomIds] :
                \A i \in 1..(k - 1) : s[i] < s[i + 1]} :
           k \in 0..MaxValidatorRooms}

\* Every connection of the list stored under its from_room.
RECURSIVE StoreConnections(_, _, _)
StoreConnections(conns, edges, i) ==
    IF i > Len(edges) THEN conns
    ELSE StoreConnections(
             PushConnection(conns, edges[i].from_room,
                 RoomConnection(edges[i].from_room, edges[i].to_room, "North",
                     edges[i].is_locked,
                     IF edges[i].is_locked THEN "defeat_room_enemies" ELSE None)),
             edges, i + 1)

\* A layout that satisfies the data model: start_room is room 0, as in every
\* generated layout, and every connection joins two rooms of the layout.
ValidatorLayout(edges, boss_rooms) ==
    [rooms |-> [id \in ValidatorRoomIds |->
                   DungeonRoom(id,
                       generate_room_template(
                           IF \E i \in DOMAIN boss_rooms : boss_rooms[i] = id
                           THEN "Boss" ELSE "Elite", "Desert", 1, NoThreadDraw),
                       <<0, id * 100>>, id, TRUE)],
     connections |-> StoreConnections(<< >>, edges, 1),
     start_room |-> 0,
     boss_rooms |-> boss_rooms,
     total_rooms |-> MaxValidatorRooms]

\* DungeonGenerationConfig::default(), the resource the plugin inserts.
DefaultDungeonGenerationConfig ==
    [total_rooms |-> 12, max_branches_per_room |-> 3,
     boss_room_frequency |-> 4, secret_room_chance |-> 15,
     backtrack_connections |-> TRUE, ensure_all_rooms_reachable |-> TRUE]

\* generate_dungeon is not running.
IdleGenerator ==
    /\ config = DefaultDungeonGenerationConfig
    /\ pc = "idle"
    /\ rooms = << >>
    /\ connections = << >>
    /\ room_id_counter = 0
    /\ depth = 0
    /\ insertion_index = 0
    /\ critical_index = 0
    /\ num_branches = 0
    /\ branch_idx = 0
    /\ conn_index = 0
    /\ secrets_left = 0
    /\ layout = NoLayout
    /\ run = 1
    /\ stream = << >>
    /\ cursor = 0
    /\ first_layout = NoLayout

\* A GeneratedDungeon with any such layout.
InitValidator ==
    /\ IdleGenerator
    /\ \E edges \in ValidatorEdgeLists, boss_rooms \in ValidatorBossLists :
          dungeon = GeneratedDungeon(ValidatorLayout(edges, boss_rooms), 42)
    /\ unlock_event = NoEvent
    /\ validation = NoValidation
    /\ InitRoomSystem
    /\ InitCalls

\* validate_dungeon_integrity: both validators run on the changed resource.
validate_dungeon_integrity ==
    /\ dungeon # NoDungeon
    /\ validation = NoValidation
    /\ validation' =
          [state |-> "validated",
           connectivity |-> validate_connectivity(dungeon.layout),
           critical_path |-> validate_critical_path(dungeon.layout)]
    /\ UNCHANGED <<config, pc, genVars, layout, run, stream, cursor, first_layout,
                   unlockVars, roomVars, callVars>>

NextValidator == validate_dungeon_integrity

SpecValidator == InitValidator /\ [][NextValidator]_vars

\* --------------------------------------------------------- room_system.rs
MaxFloor == 4

\* A weight given in hundredths, in units of 1/4000: the halvings and the
\* factors 1.5 and 1.3 of apply_history_adjustments stay whole numbers.
Hundredths(h) == h * 40

\* RoomType::get_weight_by_floor
get_weight_by_floor(room_type, floor) ==
    CASE room_type = "Combat" ->
            (IF floor >= 1 /\ floor <= 3 THEN Hundredths(60)
             ELSE IF floor >= 4 /\ floor <= 7 THEN Hundredths(50)
             ELSE IF floor >= 8 /\ floor <= 10 THEN Hundredths(40)
             ELSE Hundredths(30))
      [] room_type = "Elite" ->
            (IF floor >= 1 /\ floor <= 2 THEN Hundredths(0)
             ELSE IF floor >= 3 /\ floor <= 5 THEN Hundredths(15)
             ELSE IF floor >= 6 /\ floor <= 9 THEN Hundredths(25)
             ELSE Hundredths(30))
      [] room_type = "Treasure" ->
            (IF floor >= 1 /\ floor <= 3 THEN Hundredths(20)
             ELSE IF floor >= 4 /\ floor <= 7 THEN Hundredths(15)
             ELSE Hundredths(10))
      [] room_type = "Shop" ->
            (IF floor >= 1 /\ floor <= 2 THEN Hundredths(5)
             ELSE IF floor >= 3 /\ floor <= 6 THEN Hundredths(10)
             ELSE Hundredths(15))
      [] room_type = "Event" -> Hundredths(10)
      [] room_type = "Rest" ->
            (IF floor >= 1 /\ floor <= 3 THEN Hundredths(5)
             ELSE IF floor >= 4 /\ floor <= 6 THEN Hundredths(10)
             ELSE Hundredths(15))
      [] room_type = "Boss" -> Hundredths(0)
      [] OTHER -> Hundredths(2)

\* The keys generate_next_room inserts into room_weights.
WeightedRoomTypes == {"Combat", "Elite", "Treasure", "Shop", "Event", "Rest", "Secret"}

\* room_weights before the history adjustment.
BaseWeights(floor) ==
    [room_type \in WeightedRoomTypes |-> get_weight_by_floor(room_type, floor)]

\* &history[history.len()-2..]
LastTwo(history) == SubSeq(history, Len(history) - 1, Len(history))

\* `for room_type in last_two { *weight *= 0.5 }`, from entry i on.
RECURSIVE ReduceRepeated(_, _, _)
ReduceRepeated(weights, last_two, i) ==
    IF i > Len(last_two) THEN weights
    ELSE IF last_two[i] \in DOMAIN weights
         THEN ReduceRepeated([weights EXCEPT ![last_two[i]] = @ \div 2], last_two, i + 1)
         ELSE ReduceRepeated(weights, last_two, i + 1)

\* `match last_two` with 0.5 in place of 1.5 for Treasure.
EncourageVarietyHalfTreasure(weights, last_two) ==
    IF last_two = <<"Combat", "Combat">>
    THEN [weights EXCEPT !["Treasure"] = @ \div 2, !["Event"] = (@ * 13) \div 10]
    ELSE IF last_two[1] = "Elite"
         THEN [weights EXCEPT !["Rest"] = @ * 2]
         ELSE weights

\* `match last_two`: the two arms that change weights.
EncourageVariety(weights, last_two) ==
    IF last_two = <<"Combat", "Combat">>
    THEN [weights EXCEPT !["Treasure"] = (@ * 3) \div 2, !["Event"] = (@ * 13) \div 10]
    ELSE IF last_two[1] = "Elite"
         THEN [weights EXCEPT !["Rest"] = @ * 2]
         ELSE weights

apply_history_adjustments(weights, history) ==
    IF Len(history) >= 2
    THEN EncourageVariety(ReduceRepeated(weights, LastTwo(history), 1), LastTwo(history))
    ELSE weights

\* The orders explored in which the HashMap hands out its entries.
TableOrders ==
    {<<"Combat", "Elite", "Treasure", "Shop", "Event", "Rest", "Secret">>,
     <<"Secret", "Rest", "Event", "Shop", "Treasure", "Elite", "Combat">>,
     <<"Elite", "Rest", "Combat", "Secret", "Treasure", "Event", "Shop">>}

\* The weight table as the loop of select_weighted_room_type sees it.
TableEntries(weights, order) ==
    [i \in DOMAIN order |-> <<order[i], weights[order[i]]>>]

\* The values explored of rng.gen::<f32>() * total_weight, a value from 0 up
\* to but not including total_weight: 0, the sums of the first entries, the
\* value after each such sum, and the last value.
WeightedDraws(entries) ==
    LET total == TotalWeight(entries, Len(entries))
        sums == {TotalWeight(entries, i) : i \in DOMAIN entries}
    IN  {0} \cup {r \in sums \cup {x + 1 : x \in sums} \cup {total - 1} :
                     r >= 0 /\ r < total}

\* select_weighted_room_type; Combat is the fallback of the walk.
select_weighted_room_type(weights, order, random_value) ==
    WeightedWalk(TableEntries(weights, order), 1, random_value)

\* The floors of `match floor { 4 | 8 | 12 => ... }`.
IsBossFloor(floor) == floor \in {4, 8, 12}

\* The payloads explored of GenerateNextRoomEvent.
PreferredTypes == {None, "Elite", "Treasure"}

\* initialize_room_system
initialize_room_system ==
    /\ current_room = NoRoom
    /\ \E tr \in ExploredThreadDraws("Combat") :
          LET initial_room == generate_room_template("Combat", "Desert", 1, tr) IN
          current_room' = [template |-> initial_room, is_completed |-> FALSE,
                           enemies_remaining |-> initial_room.max_enemies,
                           loot_spawned |-> FALSE]
    /\ dungeon_state' = [dungeon_state EXCEPT !.room_history = Append(@, "Combat")]
    /\ UNCHANGED <<config, pc, genVars, layout, run, stream, cursor, first_layout,
                   unlockVars, validation, callVars, transition_event, room_weights>>

\* handle_room_generation_requests reads one GenerateNextRoomEvent: it
\* calls generate_next_room and sends the TransitionToRoomEvent.  One
\* transition is in flight at a time, and floors up to MaxFloor are explored.
handle_room_generation_requests ==
    /\ current_room # NoRoom
    /\ transition_event = NoTransition
    /\ dungeon_state.current_floor < MaxFloor
    /\ \E preferred_type \in PreferredTypes :
          LET floor == dungeon_state.current_floor + 1
              biome == determine_biome_for_floor(floor)
          IN  IF preferred_type # None
              THEN /\ \E tr \in ExploredThreadDraws(preferred_type) :
                         transition_event' =
                             [new_room |-> generate_room_template(preferred_type, biome, floor, tr)]
                   /\ room_weights' = NoWeights
              ELSE IF IsBossFloor(floor)
              THEN /\ transition_event' =
                         [new_room |-> generate_room_template("Boss", biome, floor, NoThreadDraw)]
                   /\ room_weights' = NoWeights
              ELSE LET weights == apply_history_adjustments(BaseWeights(floor),
                                      dungeon_state.room_history)
                   IN  /\ room_weights' = weights
                       /\ \E order \in TableOrders :
                          \E random_value \in WeightedDraws(TableEntries(weights, order)) :
                             LET selected_room_type ==
                                     select_weighted_room_type(weights, order, random_value)
                             IN  \E tr \in ExploredThreadDraws(selected_room_type) :
                                    transition_event' =
                                        [new_room |-> generate_room_template(
                                             selected_room_type, biome, floor, tr)]
    /\ UNCHANGED <<config, pc, genVars, layout, run, stream, cursor, first_layout,
                   unlockVars, validation, callVars, dungeon_state, current_room>>

\* handle_room_transitions reads the TransitionToRoomEvent.
handle_room_transitions ==
    /\ transition_event # NoTransition
    /\ LET new_room == transition_event.new_room IN
       /\ current_room' =
             [template |-> new_room,
              is_completed |-> new_room.room_type \in {"Treasure", "Shop", "Rest"},
              enemies_remaining |-> new_room.max_enemies,
              loot_spawned |-> FALSE]
       /\ dungeon_state' =
             [dungeon_state EXCEPT !.current_floor = @ + 1,
                                   !.room_history = Append(@, new_room.room_type)]
    /\ transition_event' = NoTransition
    /\ room_weights' = NoWeights
    /\ UNCHANGED <<config, pc, genVars, layout, run, stream, cursor, first_layout,
                   unlockVars, validation, callVars>>

\* update_biome_transitions
update_biome_transitions ==
    /\ current_room # NoRoom
    /\ dungeon_state' =
          [dungeon_state EXCEPT
              !.current_biome = determine_biome_for_floor(dungeon_state.current_floor)]
    /\ UNCHANGED <<config, pc, genVars, layout, run, stream, cursor, first_layout,
                   unlockVars, validation, callVars, current_room, transition_event, room_weights>>

\* monitor_room_completion, when its condition holds.
monitor_room_completion ==
    /\ current_room # NoRoom
    /\ ~current_room.is_completed
    /\ current_room.enemies_remaining = 0
    /\ current_room' = [current_room EXCEPT !.is_completed = TRUE]
    /\ dungeon_state' = [dungeon_state EXCEPT !.rooms_completed = @ + 1]
    /\ UNCHANGED <<config, pc, genVars, layout, run, stream, cursor, first_layout,
                   unlockVars, validation, callVars, transition_event, room_weights>>

\* CurrentRoom::decrease_enemies(count), for a single enemy or every enemy
\* that remains.
decrease_enemies ==
    /\ current_room # NoRoom
    /\ current_room.enemies_remaining > 0
    /\ \E count \in {1, current_room.enemies_remaining} :
          current_room' =
              [current_room EXCEPT !.enemies_remaining =
                  IF count > @ THEN 0 ELSE @ - count]
    /\ UNCHANGED <<config, pc, genVars, layout, run, stream, cursor, first_layout,
                   unlockVars, validation, callVars, dungeon_state, transition_event, room_weights>>

\* The room system starts with its default resources.
InitRooms ==
    /\ IdleGenerator
    /\ InitAux

NextRooms ==
    \/ initialize_room_system
    \/ handle_room_generation_requests
    \/ handle_room_transitions
    \/ update_biome_transitions
    \/ monitor_room_completion
    \/ decrease_enemies

SpecRooms == InitRooms /\ [][NextRooms]_vars

\* ------------------------------------- select_weighted_room_type, by itself
MaxTableEntries == 2
MaxTableWeight == 2

\* The keys of the weight tables explored: Combat, the fallback of the walk,
\* and two other room types.
TableKeys == {"Combat", "Elite", "Treasure"}

\* A HashMap<RoomType, f32> in the order it hands out its n entries.
TablesOfLength(n) ==
    {t \in [1..n -> TableKeys \X (0..MaxTableWeight)] :
        \A i, j \in 1..n : i # j => t[i][1] # t[j][1]}

WeightTables == UNION {TablesOfLength(n) : n \in 0..MaxTableEntries}

\* rng.gen::<f32>() * total_weight: a value from 0 up to total_weight.  The
\* sum and the subtractions of the walk round, so a rest above 0 can remain
\* after the last entry: the value one unit above total_weight stands for
\* that.  A total of 0 gives 0.
RandomValues(table) ==
    LET total_weight == TotalWeight(table, Len(table))
    IN  IF total_weight = 0 THEN {0} ELSE 0..(total_weight + 1)

\* select_weighted_room_type is called with a weight table.
InitSelect ==
    /\ IdleGenerator
    /\ dungeon = NoDungeon
    /\ unlock_event = NoEvent
    /\ validation = NoValidation
    /\ InitRoomSystem
    /\ template_call = NoTemplateCall
    /\ \E table \in WeightTables :
          selection = [NoSelection EXCEPT !.pc = "called", !.weights = table]

\* `let mut random_value = rng.gen::<f32>() * total_weight;`
DrawRandomValue ==
    /\ selection.pc = "called"
    /\ \E random_value \in RandomValues(selection.weights) :
          selection' = [selection EXCEPT !.pc = "walk", !.index = 1,
                                         !.random_value = random_value]
    /\ UNCHANGED <<config, pc, genVars, layout, run, stream, cursor, first_layout,
                   unlockVars, validation, roomVars, template_call>>

\* One round of `for (room_type, weight) in weights`.
WalkStep ==
    /\ selection.pc = "walk"
    /\ selection.index <= Len(selection.weights)
    /\ LET entry == selection.weights[selection.index]
           rest == selection.random_value - entry[2]
       IN  IF rest <= 0
           THEN selection' = [selection EXCEPT !.pc = "returned", !.random_value = rest,
                                               !.room_type = entry[1]]
           ELSE selection' = [selection EXCEPT !.index = @ + 1, !.random_value = rest]
    /\ UNCHANGED <<config, pc, genVars, layout, run, stream, cursor, first_layout,
                   unlockVars, validation, roomVars, template_call>>

\* The loop returned nothing: the function yields RoomType::Combat.
WalkFallbackNoRoom ==
    /\ selection.pc = "walk"
    /\ selection.index > Len(selection.weights)
    /\ selection' = [selection EXCEPT !.pc = "returned"]
    /\ UNCHANGED <<config, pc, genVars, layout, run, stream, cursor, first_layout,
                   unlockVars, validation, roomVars, template_call>>

WalkFallback ==
    /\ selection.pc = "walk"
    /\ selection.index > Len(selection.weights)
    /\ selection' = [selection EXCEPT !.pc = "returned", !.room_type = "Combat"]
    /\ UNCHANGED <<config, pc, genVars, layout, run, stream, cursor, first_layout,
                   unlockVars, validation, roomVars, template_call>>

NextSelect ==
    \/ DrawRandomValue
    \/ WalkStep
    \/ WalkFallback

\* The function runs on once it is called.
SpecSelect == InitSelect /\ [][NextSelect]_vars /\ WF_vars(NextSelect)

\* --------------------------------------- apply_history_adjustments, by itself
MaxWeightFloor == 7
MaxRecentRooms == 2

\* The room histories explored: every sequence of up to MaxRecentRooms types.
RoomHistories == UNION {[1..n -> RoomType] : n \in 0..MaxRecentRooms}

\* generate_next_room is about to build the table of floor current_floor + 1
\* with some room history.
InitWeights ==
    /\ IdleGenerator
    /\ dungeon = NoDungeon
    /\ unlock_event = NoEvent
    /\ validation = NoValidation
    /\ InitCalls
    /\ current_room = NoRoom
    /\ transition_event = NoTransition
    /\ room_weights = NoWeights
    /\ \E floor \in 1..MaxWeightFloor, history \in RoomHistories :
          dungeon_state = [DefaultDungeonState EXCEPT !.current_floor = floor - 1,
                                                      !.room_history = history]

\* The table generate_next_room builds from get_weight_by_floor, and
\* apply_history_adjustments on it.
AdjustRoomWeights ==
    /\ room_weights = NoWeights
    /\ room_weights' = apply_history_adjustments(
                           BaseWeights(dungeon_state.current_floor + 1),
                           dungeon_state.room_history)
    /\ UNCHANGED <<config, pc, genVars, layout, run, stream, cursor, first_layout,
                   unlockVars, validation, callVars, dungeon_state, current_room,
                   transition_event>>

NextWeights == AdjustRoomWeights

SpecWeights == InitWeights /\ [][NextWeights]_vars

\* ------------------------------------------ generate_room_template, by itself
MaxTemplateFloor == 12

\* generate_room_template is called with a room type, a biome and a floor.
InitTemplate ==
    /\ IdleGenerator
    /\ dungeon = NoDungeon
    /\ unlock_event = NoEvent
    /\ validation = NoValidation
    /\ InitRoomSystem
    /\ selection = NoSelection
    /\ \E room_type \in RoomType, biome \in BiomeType, floor \in 0..MaxTemplateFloor :
          template_call = [NoTemplateCall EXCEPT !.room_type = room_type,
                                                 !.biome = biome, !.floor = floor]

\* The call returns its RoomTemplate, for every outcome of thread_rng.
ReturnRoomTemplate ==
    /\ template_call.room_type # None
    /\ template_call.template.room_type = None
    /\ \E tr \in ThreadRngDraws(template_call.room_type) :
          template_call' =
              [template_call EXCEPT !.template =
                  generate_room_template(template_call.room_type, template_call.biome,
                                         template_call.floor, tr)]
    /\ UNCHANGED <<config, pc, genVars, layout, run, stream, cursor, first_layout,
                   unlockVars, validation, roomVars, selection>>

NextTemplate == ReturnRoomTemplate

SpecTemplate == InitTemplate /\ [][NextTemplate]_vars

\* C1: in every returned layout start_room is a key of rooms, and both ends
\* of every connection are keys of rooms.
C1_EndpointsAreRooms ==
    Done =>
        /\ layout.start_room \in DOMAIN layout.rooms
        /\ \A c \in AllConnections(layout) :
              c.from_room \in DOMAIN layout.rooms /\ c.to_room \in DOMAIN layout.rooms

\* A layout with a forward and a backtrack edge, a locked branch edge with
\* its return edge, and a secret edge.
C1_Witness ==
    /\ Done
    /\ config.backtrack_connections
    /\ layout.boss_rooms # << >>
    /\ \E b \in BranchRoomIds(layout) : HasLockedInbound(layout, b)
    /\ SecretRoomIds(layout) # {}

\* C2 as stated: every room that is not a secret room is reachable from
\* start_room along unlocked connections.
C2_AllNonSecretReachable ==
    Done =>
        \A id \in DOMAIN layout.rooms :
            RoomTypeOf(layout, id) # "Secret" => id \in Visited(layout)

\* C2 amended: every critical-path room, and every branch room with an
\* unlocked inbound edge, is reachable from start_room along unlocked
\* connections.
C2_UnlockedRoomsReachable ==
    Done =>
        \A id \in DOMAIN layout.rooms :
            (RoomTypeOf(layout, id) # "Secret"
             /\ (layout.rooms[id].is_critical_path \/ HasUnlockedInbound(layout, id)))
            => id \in Visited(layout)

\* A layout with several critical-path rooms, a branch room behind an
\* unlocked edge and a branch room behind a locked edge.
C2_Witness ==
    /\ Done
    /\ Len(CriticalRooms(rooms)) >= 2
    /\ \E b \in BranchRoomIds(layout) : HasUnlockedInbound(layout, b)
    /\ \E b \in BranchRoomIds(layout) :
          HasLockedInbound(layout, b) /\ b \notin Visited(layout)

\* C3: the second call with the same config and seed returns the layout the
\* first call returned.
C3_SameSeedSameLayout ==
    (run = 2 /\ Done) => layout = first_layout

\* The depths of the rooms in boss_rooms.
BossDepths(l) == {l.rooms[l.boss_rooms[i]].depth : i \in DOMAIN l.boss_rooms}

\* C4: the boss rooms are at the positive multiples of boss_room_frequency
\* up to and including total_rooms, and nowhere else.
C4_BossAtEveryMultiple ==
    Done =>
        BossDepths(layout) =
            {d \in 1..config.total_rooms : d % config.boss_room_frequency = 0}

\* C5: once the critical path is generated, every depth from 0 to
\* total_rooms has exactly one critical-path room, and the critical-path
\* rooms are in strictly increasing depth order.
C5_OneCriticalRoomPerDepth ==
    pc \in {"branch", "connect", "secrets", "done"} =>
        LET critical == CriticalRooms(rooms) IN
        /\ \A d \in 0..config.total_rooms :
              Cardinality({i \in DOMAIN critical : critical[i].depth = d}) = 1
        /\ \A i \in DOMAIN critical :
              i > 1 => critical[i - 1].depth < critical[i].depth

\* C6: validate_critical_path is true of every returned layout.
C6_CriticalPathValid ==
    Done => validate_critical_path(layout)

\* A layout without backtrack edges, with two boss rooms and a locked edge.
C6_Witness ==
    /\ Done
    /\ ~config.backtrack_connections
    /\ Len(layout.boss_rooms) >= 2
    /\ \E c \in AllConnections(layout) : c.is_locked

\* C7: validate_connectivity is true of every returned layout: the rooms its
\* search visits are the rooms it counts as immediately accessible.
C7_ConnectivityValid ==
    Done =>
        /\ validate_connectivity(layout)
        /\ Visited(layout) = ImmediatelyAccessible(layout)

\* A layout with a branch room behind a locked edge that is the parent of a
\* secret room, and a secret room whose parent is a secret room.
C7_Witness ==
    /\ Done
    /\ \E c \in AllConnections(layout) :
          /\ c.from_room \in BranchRoomIds(layout)
          /\ c.to_room \in SecretRoomIds(layout)
          /\ c.from_room \notin Visited(layout)
    /\ \E c \in AllConnections(layout) :
          c.from_room \in SecretRoomIds(layout) /\ c.to_room \in SecretRoomIds(layout)

\* The forward edges: from a critical-path room to the next one of the room
\* vector.
ForwardEdges ==
    LET critical == CriticalRooms(rooms) IN
    {c \in AllConnections(layout) :
        \E i \in DOMAIN critical :
            /\ i < Len(critical)
            /\ c.from_room = critical[i].id
            /\ c.to_room = critical[i + 1].id}

\* C8: every pair of consecutive critical-path rooms has a forward edge, and
\* a forward edge leads one depth down.
C8_ForwardEdgeDepth ==
    Done =>
        /\ Cardinality(ForwardEdges) = Len(CriticalRooms(rooms)) - 1
        /\ \A c \in ForwardEdges :
              layout.rooms[c.to_room].depth = layout.rooms[c.from_room].depth + 1

\* A critical path with a room filled in between the start room and a boss
\* room, and backtrack edges.
C8_Witness ==
    /\ Done
    /\ config.backtrack_connections
    /\ \E c \in ForwardEdges :
          /\ RoomTypeOf(layout, c.to_room) # "Boss"
          /\ c.to_room > c.from_room + 1
    /\ \E c \in ForwardEdges : RoomTypeOf(layout, c.to_room) = "Boss"

\* C9: no connection into a secret room is unlocked.
C9_SecretEdgesLocked ==
    Done =>
        \A c \in AllConnections(layout) :
            c.to_room \in SecretRoomIds(layout) => c.is_locked

\* A layout with a branch room and a secret room whose parent is a secret
\* room.
C9_Witness ==
    /\ Done
    /\ BranchRoomIds(layout) # {}
    /\ \E c \in AllConnections(layout) :
          c.from_room \in SecretRoomIds(layout) /\ c.to_room \in SecretRoomIds(layout)

\* C10: generate_dungeon returns no layout for total_rooms = 0.
C10_ZeroRoomsRejected ==
    config.total_rooms = 0 => ~Done

\* The places of the connection map: key and index in the key's vector.
ConnectionSlots(l) ==
    UNION {{<<k, i>> : i \in DOMAIN l.connections[k]} : k \in DOMAIN l.connections}

ConnectionAt(l, slot) == l.connections[slot[1]][slot[2]]

InboundSlots(l, id) ==
    {s \in ConnectionSlots(l) : ConnectionAt(l, s).to_room = id}

OutboundSlots(l, id) ==
    {s \in ConnectionSlots(l) : ConnectionAt(l, s).from_room = id}

CriticalRoomIds(l) == {id \in DOMAIN l.rooms : l.rooms[id].is_critical_path}

\* C12: the rooms one run creates have pairwise distinct ids, so layout.rooms
\* has as many entries as rooms were created.
C12_RoomIdsDistinct ==
    Done =>
        /\ \A i, j \in DOMAIN rooms : rooms[i].id = rooms[j].id => i = j
        /\ Cardinality(DOMAIN layout.rooms) = Len(rooms)

\* A layout with rooms of all three stages: a boss room, a branch room and a
\* secret room.
C12_Witness ==
    /\ Done
    /\ Len(layout.boss_rooms) >= 1
    /\ BranchRoomIds(layout) # {}
    /\ SecretRoomIds(layout) # {}

\* C13: an edge from a critical-path room to a branch room is locked exactly
\* when its unlock condition is "defeat_room_enemies", and has no unlock
\* condition when it is unlocked.
C13_LockMatchesCondition ==
    Done =>
        \A c \in AllConnections(layout) :
            (c.from_room \in CriticalRoomIds(layout) /\ c.to_room \in BranchRoomIds(layout))
            => /\ c.is_locked <=> c.unlock_condition = "defeat_room_enemies"
               /\ ~c.is_locked => c.unlock_condition = None

\* C14 as stated: a branch room has exactly one inbound edge, from the
\* critical-path room of its depth, and exactly one outbound edge, the
\* unlocked return edge to that room.
C14_BranchOneInOneOut ==
    Done =>
        \A b \in BranchRoomIds(layout) :
            /\ Cardinality(InboundSlots(layout, b)) = 1
            /\ Cardinality(OutboundSlots(layout, b)) = 1
            /\ \A s \in InboundSlots(layout, b), t \in OutboundSlots(layout, b) :
                  LET in == ConnectionAt(layout, s)
                      out == ConnectionAt(layout, t)
                  IN  /\ in.from_room \in CriticalRoomIds(layout)
                      /\ layout.rooms[in.from_room].depth = layout.rooms[b].depth
                      /\ out.to_room = in.from_room
                      /\ ~out.is_locked

\* The outbound edges of a room that do not lead to a secret room.
NonSecretOutboundSlots(l, id) ==
    {s \in OutboundSlots(l, id) : ConnectionAt(l, s).to_room \notin SecretRoomIds(l)}

\* C14 amended: a branch room has exactly one inbound edge, from the
\* critical-path room of its depth, and exactly one outbound edge that does
\* not lead to a secret room, the unlocked return edge to that critical-path
\* room; its other outbound edges are locked edges to secret rooms of its own
\* depth.
C14_BranchEdges ==
    Done =>
        \A b \in BranchRoomIds(layout) :
            /\ Cardinality(InboundSlots(layout, b)) = 1
            /\ Cardinality(NonSecretOutboundSlots(layout, b)) = 1
            /\ \A s \in InboundSlots(layout, b), t \in NonSecretOutboundSlots(layout, b) :
                  LET in == ConnectionAt(layout, s)
                      out == ConnectionAt(layout, t)
                  IN  /\ in.from_room \in CriticalRoomIds(layout)
                      /\ layout.rooms[in.from_room].depth = layout.rooms[b].depth
                      /\ out.to_room = in.from_room
                      /\ ~out.is_locked
            /\ \A t \in OutboundSlots(layout, b) \ NonSecretOutboundSlots(layout, b) :
                  /\ ConnectionAt(layout, t).is_locked
                  /\ layout.rooms[ConnectionAt(layout, t).to_room].depth = layout.rooms[b].depth

\* A branch room that is the parent of a secret room, and a branch room that
\* is not.
C14_Witness ==
    /\ Done
    /\ \E b \in BranchRoomIds(layout) : Cardinality(OutboundSlots(layout, b)) >= 2
    /\ Len(CriticalRooms(rooms)) >= 2

\* C15: a secret room has exactly one inbound edge; the edge is locked, its
\* unlock condition is "find_secret_switch", it comes from a room of the
\* secret room's depth, and no edge leads from the secret room back to that
\* room.
C15_SecretOneLockedInbound ==
    Done =>
        \A x \in SecretRoomIds(layout) :
            /\ Cardinality(InboundSlots(layout, x)) = 1
            /\ \A s \in InboundSlots(layout, x) :
                  LET in == ConnectionAt(layout, s) IN
                  /\ in.is_locked
                  /\ in.unlock_condition = "find_secret_switch"
                  /\ in.from_room # x
                  /\ layout.rooms[in.from_room].depth = layout.rooms[x].depth
                  /\ \A t \in OutboundSlots(layout, x) :
                        ConnectionAt(layout, t).to_room # in.from_room

\* A secret room under a branch room and a secret room that is itself the
\* parent of a secret room.
C15_Witness ==
    /\ Done
    /\ \E c \in AllConnections(layout) :
          c.from_room \in BranchRoomIds(layout) /\ c.to_room \in SecretRoomIds(layout)
    /\ \E x \in SecretRoomIds(layout) : OutboundSlots(layout, x) # {}

\* C16: the number of secret rooms is n * secret_room_chance rounded to the
\* nearest integer (no farther than one half from it), n being the number of
\* rooms before the secret rooms are added.
C16_SecretCountRounded ==
    Done =>
        LET secret_count == Cardinality(SecretRoomIds(layout))
            n == Len(rooms) - secret_count
        IN  Abs(100 * secret_count - n * config.secret_room_chance) <= 50

CompassOpposite ==
    {<<"North", "South">>, <<"South", "North">>, <<"East", "West">>, <<"West", "East">>}

\* C17: consecutive critical-path rooms are joined by exactly one unlocked
\* edge from the shallower to the deeper room; with backtrack_connections
\* there is exactly one edge back, unlocked and pointing the opposite way,
\* and without it there is none.
C17_CriticalEdges ==
    Done =>
        LET critical == CriticalRooms(rooms) IN
        \A i \in 1..(Len(critical) - 1) :
            LET forward == {s \in OutboundSlots(layout, critical[i].id) :
                               ConnectionAt(layout, s).to_room = critical[i + 1].id}
                back == {s \in OutboundSlots(layout, critical[i + 1].id) :
                            ConnectionAt(layout, s).to_room = critical[i].id}
            IN  /\ critical[i].depth < critical[i + 1].depth
                /\ Cardinality(forward) = 1
                /\ \A s \in forward : ~ConnectionAt(layout, s).is_locked
                /\ IF config.backtrack_connections
                   THEN /\ Cardinality(back) = 1
                        /\ \A s \in forward, t \in back :
                              /\ ~ConnectionAt(layout, t).is_locked
                              /\ <<ConnectionAt(layout, s).direction,
                                   ConnectionAt(layout, t).direction>> \in CompassOpposite
                   ELSE back = {}

\* A critical path of three rooms with backtrack edges and a branch room.
C17_Witness ==
    /\ Done
    /\ config.backtrack_connections
    /\ Len(CriticalRooms(rooms)) >= 3
    /\ BranchRoomIds(layout) # {}

\* C11: once a room-unlock event is handled, the connections it names (its
\* tag as unlock condition, its room as destination) are unlocked and the
\* room is in unlocked_rooms.
C11_UnlockEventUnlocks ==
    unlock_event.state = "handled" =>
        /\ \A c \in AllConnections(dungeon.layout) :
              (c.to_room = unlock_event.room /\ c.unlock_condition = unlock_event.tag)
              => ~c.is_locked
        /\ unlock_event.room \in dungeon.unlocked_rooms

\* The rooms a walk from the rooms of `from` over `edges` arrives at.
RECURSIVE Closure(_, _)
Closure(from, edges) ==
    LET more == from \cup {e.to_room : e \in {x \in edges : x.from_room \in from}}
    IN  IF more = from THEN from ELSE Closure(more, edges)

UnlockedConnections(l) == {c \in AllConnections(l) : ~c.is_locked}

\* The start room and the rooms with an unlocked inbound edge.
OpenRooms(l) ==
    {l.start_room} \cup {id \in DOMAIN l.rooms : HasUnlockedInbound(l, id)}

\* C18: on a layout that satisfies the data model validate_connectivity is
\* true exactly when every room that is the start room or has an unlocked
\* inbound edge is reachable from start_room over unlocked edges.
C18_ConnectivityIff ==
    validation.state = "validated" =>
        (validation.connectivity <=>
            OpenRooms(dungeon.layout) \subseteq
                Closure({dungeon.layout.start_room}, UnlockedConnections(dungeon.layout)))

\* A layout that fails: a room with an unlocked inbound edge from a room that
\* cannot be reached, next to a room whose inbound edges are all locked.
C18_Witness ==
    /\ validation.state = "validated"
    /\ ~validation.connectivity
    /\ \E id \in DOMAIN dungeon.layout.rooms :
          HasLockedInbound(dungeon.layout, id) /\ ~HasUnlockedInbound(dungeon.layout, id)

\* C19: validate_critical_path is true exactly when every room of boss_rooms
\* is reachable from start_room over the connections, locked ones included.
C19_CriticalPathIff ==
    validation.state = "validated" =>
        (validation.critical_path <=>
            \A i \in DOMAIN dungeon.layout.boss_rooms :
                dungeon.layout.boss_rooms[i] \in
                    Closure({dungeon.layout.start_room}, AllConnections(dungeon.layout)))

\* A layout that passes with a boss room reachable through a locked edge
\* only.
C19_Witness ==
    /\ validation.state = "validated"
    /\ validation.critical_path
    /\ \E i \in DOMAIN dungeon.layout.boss_rooms :
          dungeon.layout.boss_rooms[i] \notin
              Closure({dungeon.layout.start_room}, UnlockedConnections(dungeon.layout))

\* The weight of Rest after the halving of repeated types alone.
RestBeforeVariety(floor, history) ==
    IF Len(history) >= 2
    THEN ReduceRepeated(BaseWeights(floor), LastTwo(history), 1)["Rest"]
    ELSE BaseWeights(floor)["Rest"]

\* C20: whenever generate_next_room draws from the weight table, the weight
\* of Rest is twice its halved base weight exactly when the most recent entry
\* of the room history is Elite.
C20_RestDoubledAfterElite ==
    room_weights # NoWeights =>
        LET history == dungeon_state.room_history
            floor == dungeon_state.current_floor + 1
        IN  (room_weights["Rest"] = 2 * RestBeforeVariety(floor, history))
            <=> (history # << >> /\ history[Len(history)] = "Elite")

\* The weight table after the halving loop alone.
ReducedWeights(floor, history) ==
    IF Len(history) >= 2
    THEN ReduceRepeated(BaseWeights(floor), LastTwo(history), 1)
    ELSE BaseWeights(floor)

\* The room types among the last two entries of the history.
RecentTypes(history) == {LastTwo(history)[i] : i \in DOMAIN LastTwo(history)}

\* C21: whenever generate_next_room draws from the weight table with two or
\* more rooms in the history, the halving loop leaves each type among the last
\* two entries with half its base weight, also a type that fills both entries,
\* and every other type with its base weight.
C21_RepeatedTypeHalvedOnce ==
    (room_weights # NoWeights /\ Len(dungeon_state.room_history) >= 2) =>
        LET history == dungeon_state.room_history
            floor == dungeon_state.current_floor + 1
        IN  \A room_type \in WeightedRoomTypes :
               IF room_type \in RecentTypes(history)
               THEN 2 * ReducedWeights(floor, history)[room_type]
                        = BaseWeights(floor)[room_type]
               ELSE ReducedWeights(floor, history)[room_type]
                        = BaseWeights(floor)[room_type]

\* C22: a room generated for a floor that is a multiple of boss_room_frequency
\* is a Boss room chosen without the weight table, and a room drawn from the
\* weight table for any other floor is not a Boss room.
C22_BossOnFrequencyFloors ==
    transition_event # NoTransition =>
        LET floor == dungeon_state.current_floor + 1
            new_room == transition_event.new_room
        IN  IF floor % config.boss_room_frequency = 0
            THEN room_weights = NoWeights /\ new_room.room_type = "Boss"
            ELSE room_weights # NoWeights => new_room.room_type # "Boss"

\* C23: every call of select_weighted_room_type returns, whatever the weight
\* table and the value drawn; it returns a room type, the type of the entry
\* the walk stopped at, and Combat when the walk stopped at no entry.
C23_SelectionReturns ==
    /\ [](selection.pc = "returned" =>
            /\ selection.room_type \in RoomType
            /\ selection.room_type =
                  IF selection.index <= Len(selection.weights)
                  THEN selection.weights[selection.index][1]
                  ELSE "Combat")
    /\ <>(selection.pc = "returned")

\* A call with a table that is not empty and holds zero weights only has
\* returned.
C23_Witness ==
    /\ selection.pc = "returned"
    /\ selection.weights # << >>
    /\ \A i \in DOMAIN selection.weights : selection.weights[i][2] = 0

\* total_weight of a table of generate_next_room.
TableTotal(weights) ==
    TotalWeight(TableEntries(weights,
                    <<"Combat", "Elite", "Treasure", "Shop", "Event", "Rest", "Secret">>), 7)

\* The share of room_type in table a is strictly larger than in table b.
LargerShare(room_type, a, b) ==
    a[room_type] * TableTotal(b) > b[room_type] * TableTotal(a)

\* C24: on the floors 4 to 7 the table adjusted for a history that ends with
\* two Combat rooms gives Treasure, and Event, a strictly larger share of the
\* total weight than the table adjusted for the empty history.
C24_TreasureEventShare ==
    (/\ room_weights # NoWeights
     /\ dungeon_state.current_floor + 1 \in 4..7
     /\ Len(dungeon_state.room_history) >= 2
     /\ LastTwo(dungeon_state.room_history) = <<"Combat", "Combat">>)
    => LET empty == apply_history_adjustments(
                        BaseWeights(dungeon_state.current_floor + 1), << >>)
       IN  /\ LargerShare("Treasure", room_weights, empty)
           /\ LargerShare("Event", room_weights, empty)

\* The table of floor 7 adjusted for the history [Combat, Combat].
C24_Witness ==
    /\ room_weights # NoWeights
    /\ dungeon_state.current_floor + 1 = 7
    /\ dungeon_state.room_history = <<"Combat", "Combat">>

\* C25: in every returned layout start_room is the id of the first room
\* created, which is the one critical-path room of depth 0, and boss_rooms
\* lists the ids of the rooms of type Boss, each of them once and no other id.
C25_StartAndBossRooms ==
    Done =>
        /\ layout.start_room = 0
        /\ layout.start_room = rooms[1].id
        /\ \A id \in DOMAIN layout.rooms :
              (layout.rooms[id].is_critical_path /\ layout.rooms[id].depth = 0)
                  <=> id = layout.start_room
        /\ {layout.boss_rooms[i] : i \in DOMAIN layout.boss_rooms}
              = {id \in DOMAIN layout.rooms : RoomTypeOf(layout, id) = "Boss"}
        /\ \A i, j \in DOMAIN layout.boss_rooms :
              layout.boss_rooms[i] = layout.boss_rooms[j] => i = j

\* A layout with a boss room, a branch room of depth 0 and a secret room of
\* depth 0.
C25_Witness ==
    /\ Done
    /\ layout.boss_rooms # << >>
    /\ \E b \in BranchRoomIds(layout) : layout.rooms[b].depth = 0
    /\ \E s \in SecretRoomIds(layout) : layout.rooms[s].depth = 0

\* C26: every room listed in boss_rooms is a critical-path room; no room off
\* the critical path is of type Boss, and before add_secret_rooms runs, when
\* the rooms off the critical path are the branch rooms, none is of type Secret.
C26_BossRoomsCritical ==
    /\ \A i \in DOMAIN rooms :
          ~rooms[i].is_critical_path =>
              /\ rooms[i].template.room_type # "Boss"
              /\ pc \in {"branch", "connect"} => rooms[i].template.room_type # "Secret"
    /\ Done =>
          \A i \in DOMAIN layout.boss_rooms :
              layout.rooms[layout.boss_rooms[i]].is_critical_path

\* A layout with a boss room, a branch room attached to a boss room, and a
\* secret room.
C26_Witness ==
    /\ Done
    /\ layout.boss_rooms # << >>
    /\ \E b \in BranchRoomIds(layout) : layout.rooms[b].depth \in BossDepths(layout)
    /\ SecretRoomIds(layout) # {}

\* C27: in every returned layout two rooms of one depth have one biome.
C27_OneBiomePerDepth ==
    Done =>
        \A a, b \in DOMAIN layout.rooms :
            layout.rooms[a].depth = layout.rooms[b].depth
                => layout.rooms[a].template.biome = layout.rooms[b].template.biome

\* C28: a room type drawn from the weight table has a positive adjusted
\* weight whenever some type of the table has one; on floor 2, where the
\* weight of Elite is 0, the type drawn is not Elite.
C28_NoZeroWeightSelected ==
    (transition_event # NoTransition /\ room_weights # NoWeights) =>
        LET selected_room_type == transition_event.new_room.room_type IN
        /\ (\E room_type \in DOMAIN room_weights : room_weights[room_type] > 0)
               => room_weights[selected_room_type] > 0
        /\ dungeon_state.current_floor + 1 = 2 => selected_room_type # "Elite"

\* C29: when no completion tick is pending for the room at hand,
\* rooms_completed counts no room twice, so it is at most the number of rooms
\* entered, and it counts the room at hand, of whatever type, if the
\* enemies_remaining of that room is 0.
C29_ClearedRoomsCounted ==
    (/\ current_room # NoRoom
     /\ ~(~current_room.is_completed /\ current_room.enemies_remaining = 0))
    => /\ dungeon_state.rooms_completed <= Len(dungeon_state.room_history)
       /\ current_room.enemies_remaining = 0 => dungeon_state.rooms_completed >= 1

====
